---- MODULE Spec2Model ----
(***************************************************************************)
(* URL monitor (src/main.py): URLMonitor.check_url, URLMonitor.send_alert  *)
(* and URLMonitor.run_checks, as a state machine.                          *)
(*                                                                         *)
(* Python values are encoded as optionals: None is the empty tuple and a   *)
(* value x is the one-element tuple <<x>>.  Text (search strings, response *)
(* bodies) is a sequence of characters, so that the substring test is      *)
(* computed.  Times are integers counted in ticks; Resolution ticks make   *)
(* one hundredth of a millisecond, so round(x, 2) is a real rounding.      *)
(*                                                                         *)
(* The monitor is the object URLMonitor._init_ (lines 59-65) initialises:  *)
(* self.config is CONFIG with the "urls" list drawn at Init.               *)
(***************************************************************************)
EXTENDS Integers, Sequences, FiniteSets, TLC

VARIABLES
    urls,         \* self.config["urls"]: the configured list of url_config dicts
    cycle,        \* number of the current run of run_checks
    pc,           \* position of the run: loop, connect, starttls, login,
                  \* send_message, exit, hung, done, crashed
    idx,          \* index in urls of the for loop of run_checks
    response,     \* what session.get did in the check_url call that returned
                  \* last; None once send_alert talks to the relay
    result,       \* the dict check_url returned in this iteration, or None
    body,         \* diagnostics lines of the message send_alert built in
                  \* this iteration, or None
    smtp,         \* the smtplib.SMTP session of send_alert in this iteration
    steps,        \* SMTP operations send_alert attempted in this iteration
    ret,          \* value send_alert returned in this iteration, or None
    checked,      \* indexes passed to check_url in this cycle, in order
    probedNow,    \* session.get calls made for the target checked last
    alertsNow     \* send_alert calls made for the target checked last

vars == <<urls, cycle, pc, idx, response, result, body, smtp, steps, ret,
          checked, probedNow, alertsNow>>

-----------------------------------------------------------------------------
(* Bounds *)

MaxTargets == 2
MaxCycles == 2
MaxDelta == 3
Resolution == 4

(* Program constants *)

max_response_time_ms == 2000

-----------------------------------------------------------------------------
(* Values *)

None == <<>>
Some(x) == <<x>>

\* Mutant of Truthy: the test reads a key that is never set, so no target is
\* taken to have a search string.
TruthyNever(v) == FALSE

\* Python truthiness of an optional string: None and "" are falsy.
Truthy(v) == v # None /\ v[1] # <<>>

\* `needle in text` on str: exact, case-sensitive substring search.
IsSubstring(needle, text) ==
    \E i \in 0..(Len(text) - Len(needle)) :
        SubSeq(text, i + 1, i + Len(needle)) = needle

\* dict.get(key, default)
Get(d, k, default) == IF k \in DOMAIN d THEN d[k] ELSE default

\* How an f-string renders a value: None prints as "None".
Fmt(v) == IF v = None THEN <<"None">> ELSE <<"val", v[1]>>

\* Ticks in one millisecond.
TicksPerMs == 100 * Resolution

\* round(x, 2): to the nearest hundredth of a millisecond, ties to even.
Round2(t) ==
    LET q == t \div Resolution
        r == t % Resolution
    IN  IF 2 * r < Resolution THEN q * Resolution
        ELSE IF 2 * r > Resolution THEN (q + 1) * Resolution
        ELSE IF q % 2 = 0 THEN q * Resolution
        ELSE (q + 1) * Resolution

-----------------------------------------------------------------------------
(* Configuration *)

Urls == <<"A", "B", "C", "D">>

SearchStrings == { None, Some(<<>>), Some(<<"a">>) }

\* The url_config dicts entry i of CONFIG["urls"] may be: the well-formed
\* ones, and the ones that miss a key.
TargetsAt(i) ==
    { [url |-> Urls[i], expected_status |-> 200, search_string |-> s] :
        s \in SearchStrings }
    \cup { [expected_status |-> 200, search_string |-> None],
           [url |-> Urls[i], search_string |-> None],
           [url |-> Urls[i], expected_status |-> 200] }

Configs ==
    UNION { { c \in [1..n -> UNION { TargetsAt(i) : i \in 1..n }] :
                \A i \in 1..n : c[i] \in TargetsAt(i) } : n \in 1..MaxTargets }

\* self.config["monitoring"]["max_response_time_ms"], in ticks.
MaxResponseTime == max_response_time_ms * TicksPerMs

\* smtplib.SMTP(server, port) is given no timeout: the socket blocks.
SmtpTimeout == None

-----------------------------------------------------------------------------
(* Outcomes of the network *)

TransportErrors == { "Connection refused", "Read timed out" }

Bodies == { <<"b">>, <<"b", "a">> }

Elapsed == { MaxResponseTime + d : d \in (0 - MaxDelta)..MaxDelta }

\* What session.get does: it raises, or returns a response.
Probes ==
    [kind : {"transport"}, msg : TransportErrors]
    \cup [kind : {"response"}, status_code : {200, 404}, text : Bodies,
          elapsed : Elapsed]

\* What one SMTP operation does: it succeeds, raises, or the relay is silent.
SmtpOutcomes == { "ok", "fail", "silent" }

-----------------------------------------------------------------------------
(* check_url *)

NewResult(url, now) ==
    [url |-> url, timestamp |-> now, success |-> FALSE, status_code |-> None,
     response_time_ms |-> None, error |-> None, content_verified |-> None]

\* Mutant of ExceptBranch: the exception is swallowed without being recorded.
ExceptBranchSilent(res, msg) == res

\* except Exception as e: result["error"] = str(e)
ExceptBranch(res, msg) == [res EXCEPT !.error = Some(<<msg>>)]

\* Mutant of StatusMismatch: only server errors count as a wrong status.
StatusMismatchServerErrors(status_code, expected_status) == status_code >= 500

StatusMismatch(status_code, expected_status) == status_code # expected_status

ContentMatch(search_string, text) == IsSubstring(search_string, text)

\* Mutant of TooSlow: a response taking exactly the limit fails too.
TooSlowInclusive(response_time) == response_time >= MaxResponseTime

TooSlow(response_time) == response_time > MaxResponseTime

\* The value check_url yields for url_config when session.get behaves as
\* probe: raised is TRUE when an exception leaves check_url, probed tells
\* whether session.get was called.
check_url(url_config, now, probe) ==
    IF "url" \notin DOMAIN url_config
    THEN [raised |-> TRUE, probed |-> FALSE, result |-> None]
    ELSE
    LET r0 == NewResult(url_config.url, now)
        Ret(r) == [raised |-> FALSE, probed |-> TRUE, result |-> Some(r)]
    IN
    IF probe.kind = "transport" THEN Ret(ExceptBranch(r0, probe.msg))
    ELSE
    LET response_time == probe.elapsed
        r1 == [r0 EXCEPT !.response_time_ms = Some(Round2(response_time)),
                         !.status_code = Some(probe.status_code)]
    IN
    IF "expected_status" \notin DOMAIN url_config
    THEN Ret(ExceptBranch(r1, "'expected_status'"))
    ELSE IF StatusMismatch(probe.status_code, url_config.expected_status)
    THEN Ret([r1 EXCEPT !.error = Some(<<"Unexpected status: ", probe.status_code>>)])
    ELSE IF "search_string" \notin DOMAIN url_config
    THEN Ret(ExceptBranch(r1, "'search_string'"))
    ELSE
    LET checks == Truthy(url_config.search_string)
        content_match == ContentMatch(url_config.search_string[1], probe.text)
        r2 == IF checks THEN [r1 EXCEPT !.content_verified = Some(content_match)]
              ELSE r1
    IN
    IF checks /\ ~content_match
    THEN Ret([r2 EXCEPT !.error = Some(<<"Search string not found in response">>)])
    ELSE IF TooSlow(response_time)
    THEN Ret([r2 EXCEPT !.error = Some(<<"Slow response: ", response_time>>)])
    ELSE Ret([r2 EXCEPT !.success = TRUE])

-----------------------------------------------------------------------------
(* send_alert *)

\* The three diagnostics lines of the body.
AlertBody(check_result) ==
    [status_code |-> Fmt(Get(check_result, "status_code", Some("N/A"))),
     response_time_ms |-> Fmt(Get(check_result, "response_time_ms", Some("N/A"))),
     content_verified |-> Fmt(Get(check_result, "content_verified", Some("N/A")))]

NoSession ==
    [sock |-> "none", tls |-> FALSE, auth |-> FALSE, sent |-> FALSE, exc |-> FALSE]

\* Mutant of ShouldAlert: failures alert in the first cycle only.
ShouldAlertFirstCycle(res) == ~res.success /\ cycle = 1

\* run_checks: the else branch of `if result["success"]`.
ShouldAlert(res) == ~res.success

-----------------------------------------------------------------------------
(* The run *)

Init ==
    /\ urls \in Configs
    /\ cycle = 1
    /\ pc = "loop"
    /\ idx = 1
    /\ response = None
    /\ result = None
    /\ body = None
    /\ smtp = NoSession
    /\ steps = <<>>
    /\ ret = None
    /\ checked = <<>>
    /\ probedNow = 0
    /\ alertsNow = 0

\* One iteration of the for loop of run_checks, up to and including the call
\* of send_alert, which builds the message before it opens the SMTP session.
CheckTarget ==
    /\ pc = "loop"
    /\ idx <= Len(urls)
    /\ \E probe \in Probes :
        LET out == check_url(urls[idx], cycle, probe) IN
        /\ checked' = Append(checked, idx)
        /\ response' = IF out.probed THEN Some(probe) ELSE None
        /\ probedNow' = IF out.probed THEN 1 ELSE 0
        /\ result' = out.result
        /\ smtp' = NoSession
        /\ steps' = <<>>
        /\ ret' = None
        /\ IF out.raised
           THEN /\ pc' = "crashed"
                /\ alertsNow' = 0
                /\ body' = None
                /\ idx' = idx
           ELSE IF ShouldAlert(out.result[1])
           THEN /\ alertsNow' = 1
                /\ body' = Some(AlertBody(out.result[1]))
                /\ pc' = "connect"
                /\ idx' = idx
           ELSE /\ alertsNow' = 0
                /\ body' = None
                /\ idx' = idx + 1
                /\ pc' = "loop"
    /\ UNCHANGED <<urls, cycle>>

\* Leaving send_alert with value v: run_checks goes on to the next target.
Return(v) ==
    /\ ret' = Some(v)
    /\ idx' = idx + 1
    /\ pc' = "loop"

\* A relay that stays silent: with no timeout on the socket the call never
\* returns, with one it raises like any other failure.
Blocks == SmtpTimeout = None

\* smtplib.SMTP(server, port): connect and read the greeting.  When the
\* constructor raises it has closed its own socket: no session is left.
SmtpConnect ==
    /\ pc = "connect"
    /\ steps' = Append(steps, "connect")
    /\ response' = None
    /\ \E o \in SmtpOutcomes :
        \/ /\ o = "ok"
           /\ smtp' = [smtp EXCEPT !.sock = "open"]
           /\ pc' = "starttls"
           /\ UNCHANGED <<ret, idx>>
        \/ /\ o = "fail" \/ (o = "silent" /\ ~Blocks)
           /\ smtp' = smtp
           /\ Return(FALSE)
        \/ /\ o = "silent" /\ Blocks
           /\ smtp' = smtp
           /\ pc' = "hung"
           /\ UNCHANGED <<ret, idx>>
    /\ UNCHANGED <<urls, cycle, result, body, checked, probedNow, alertsNow>>

\* One operation inside the with block: on success the session field is set
\* and the next line runs, on an exception the with block is left.
WithStep(here, field, next) ==
    /\ pc = here
    /\ steps' = Append(steps, here)
    /\ \E o \in SmtpOutcomes :
        \/ /\ o = "ok"
           /\ smtp' = [smtp EXCEPT ![field] = TRUE]
           /\ pc' = next
        \/ /\ o = "fail" \/ (o = "silent" /\ ~Blocks)
           /\ smtp' = [smtp EXCEPT !.exc = TRUE]
           /\ pc' = "exit"
        \/ /\ o = "silent" /\ Blocks
           /\ smtp' = smtp
           /\ pc' = "hung"
    /\ UNCHANGED <<urls, cycle, idx, response, result, body, ret, checked,
                   probedNow, alertsNow>>

\* Mutant of SmtpStartTls: a refused STARTTLS is ignored and login follows.
SmtpStartTlsBestEffort ==
    /\ pc = "starttls"
    /\ steps' = Append(steps, "starttls")
    /\ \E o \in {"ok", "fail"} : smtp' = [smtp EXCEPT !.tls = (o = "ok")]
    /\ pc' = "login"
    /\ UNCHANGED <<urls, cycle, idx, response, result, body, ret, checked,
                   probedNow, alertsNow>>

SmtpStartTls == WithStep("starttls", "tls", "login")

SmtpLogin == WithStep("login", "auth", "send_message")

SmtpSendMessage == WithStep("send_message", "sent", "exit")

\* SMTP.__exit__: QUIT, then close() in a finally.  A disconnect during QUIT
\* is swallowed, another reply than 221 raises.  send_alert returns True when
\* no exception left the with block and False from its except branch.
SmtpExit ==
    /\ pc = "exit"
    /\ steps' = Append(steps, "quit")
    /\ \E o \in SmtpOutcomes \cup {"disconnected"} :
        \/ /\ o \in {"ok", "disconnected"}
           /\ smtp' = [smtp EXCEPT !.sock = "closed"]
           /\ Return(~smtp.exc)
        \/ /\ o = "fail" \/ (o = "silent" /\ ~Blocks)
           /\ smtp' = [smtp EXCEPT !.sock = "closed", !.exc = TRUE]
           /\ Return(FALSE)
        \/ /\ o = "silent" /\ Blocks
           /\ smtp' = smtp
           /\ pc' = "hung"
           /\ UNCHANGED <<ret, idx>>
    /\ UNCHANGED <<urls, cycle, response, result, body, checked, probedNow,
                   alertsNow>>

\* The for loop is exhausted: "Completed all checks".
Complete ==
    /\ pc = "loop"
    /\ idx > Len(urls)
    /\ pc' = "done"
    /\ UNCHANGED <<urls, cycle, idx, response, result, body, smtp, steps, ret,
                   checked, probedNow, alertsNow>>

\* The scheduler starts the program again: a new process, a new run_checks.
NextCycle ==
    /\ pc \in {"done", "crashed"}
    /\ cycle < MaxCycles
    /\ cycle' = cycle + 1
    /\ pc' = "loop"
    /\ idx' = 1
    /\ response' = None
    /\ result' = None
    /\ body' = None
    /\ smtp' = NoSession
    /\ steps' = <<>>
    /\ ret' = None
    /\ checked' = <<>>
    /\ probedNow' = 0
    /\ alertsNow' = 0
    /\ UNCHANGED urls

Next ==
    \/ CheckTarget
    \/ SmtpConnect
    \/ SmtpStartTls
    \/ SmtpLogin
    \/ SmtpSendMessage
    \/ SmtpExit
    \/ Complete
    \/ NextCycle

Spec == Init /\ [][Next]_vars

-----------------------------------------------------------------------------
(* Properties *)

\* The target passed to check_url last in this cycle.
Cur == checked[Len(checked)]
Target == urls[Cur]
Res == result[1]
Resp == response[1]

\* check_url has just returned a result for a response it received.
Answered == result # None /\ response # None /\ Resp.kind = "response"

HasKeys(t) == DOMAIN t = {"url", "expected_status", "search_string"}

StatusPassed == Resp.status_code = Target.expected_status

ContentPassed ==
    Target.search_string = None
        \/ IsSubstring(Target.search_string[1], Resp.text)

IsSlowError(e) == e # None /\ Len(e[1]) = 2 /\ e[1][1] = "Slow response: "

InSendAlert == pc \in {"connect", "starttls", "login", "send_message", "exit", "hung"}

SendAlertStep ==
    SmtpConnect \/ SmtpStartTls \/ SmtpLogin \/ SmtpSendMessage \/ SmtpExit

\* C1: in every cycle send_alert is invoked exactly once for a target whose
\* check_url result has success = False and never for one whose result has
\* success = True, whatever happened in earlier cycles; each target is passed
\* to check_url at most once per cycle, so the count is the count of the
\* (target, cycle) pair.
C1_OneAlertPerFailure ==
    /\ alertsNow = (IF result # None /\ ~Res.success THEN 1 ELSE 0)
    /\ \A i, j \in 1..Len(checked) : checked[i] = checked[j] => i = j

\* C1 witness: in a later cycle a target that fails in every cycle (its
\* entry has no expected_status, so its first-cycle result failed too) gets
\* its alert again.
C1_Witness ==
    /\ cycle >= 2
    /\ pc = "connect"
    /\ Cur = 1
    /\ "expected_status" \notin DOMAIN Target
    /\ alertsNow = 1

\* C2: no exception leaves run_checks, send_alert returns True only after
\* send_message completed, and a finished run has passed every configured
\* target to check_url exactly once, in configuration order.
C2_NoFailureEscapes ==
    /\ pc # "crashed"
    /\ ret = Some(TRUE) => smtp.sent
    /\ pc = "done" => checked = [i \in 1..Len(urls) |-> i]

\* C3: a response whose status differs from expected_status yields
\* "Unexpected status: {status}" whatever its body and elapsed time; one with
\* the expected status whose body lacks the configured search_string yields
\* "Search string not found in response" whatever its elapsed time; "Slow
\* response" is produced only when status and content passed.
C3_Precedence ==
    (Answered /\ HasKeys(Target)) =>
        /\ ~StatusPassed =>
             Res.error = Some(<<"Unexpected status: ", Resp.status_code>>)
        /\ (StatusPassed /\ ~ContentPassed) =>
             Res.error = Some(<<"Search string not found in response">>)
        /\ IsSlowError(Res.error) => (StatusPassed /\ ContentPassed)

\* C3 witness: wrong status, body without the search string and a slow
\* answer at once.
C3_Witness ==
    /\ Answered /\ HasKeys(Target)
    /\ ~StatusPassed /\ ~ContentPassed /\ Resp.elapsed > MaxResponseTime
    /\ Res.error = Some(<<"Unexpected status: ", Resp.status_code>>)

\* C4 as stated: success implies no error and, if the target has a
\* search_string, content_verified = True; failure implies an error.
C4_AsStated ==
    result # None =>
        /\ Res.success =>
             /\ Res.error = None
             /\ ("search_string" \in DOMAIN Target /\ Target.search_string # None)
                  => Res.content_verified = Some(TRUE)
        /\ ~Res.success => Res.error # None

\* C4, amended: success implies no error and, if the target has a non-empty
\* search_string, content_verified = True; failure implies an error.
C4_ResultInvariant ==
    result # None =>
        /\ Res.success =>
             /\ Res.error = None
             /\ ("search_string" \in DOMAIN Target
                   /\ Target.search_string # None
                   /\ Target.search_string[1] # <<>>)
                  => Res.content_verified = Some(TRUE)
        /\ ~Res.success => Res.error # None

\* C4 witness: a successful check of a target with a search string.
C4_Witness ==
    /\ result # None /\ Res.success
    /\ HasKeys(Target) /\ Target.search_string = Some(<<"a">>)
    /\ Res.content_verified = Some(TRUE)

\* C5: when session.get fails at transport level the result has no
\* status_code and no response_time_ms, success = False and as error the
\* non-empty message of the failure, and run_checks is not left.
C5_TransportFailure ==
    (response # None /\ Resp.kind = "transport") =>
        /\ result # None
        /\ Res.status_code = None
        /\ Res.response_time_ms = None
        /\ ~Res.success
        /\ Res.error = Some(<<Resp.msg>>)
        /\ Resp.msg # ""
        /\ pc # "crashed"

C5_Witness ==
    /\ response # None /\ Resp.kind = "transport"
    /\ result # None /\ Res.error = Some(<<"Read timed out">>)
    /\ pc = "connect"

\* C6: a send_alert attempt never waits without bound: while one is running
\* it can take a step (an SMTP operation returns, fails or times out).
C6_SendAlertBounded == InSendAlert => ENABLED SendAlertStep

\* C7: the SMTP operations run in the order connect, STARTTLS, login,
\* send_message; login is attempted only on a session upgraded to TLS,
\* send_message only on an authenticated one, and a session that was opened
\* is closed when send_alert has returned.
C7_SmtpOrder ==
    LET n == Len(steps)
        ops == IF n > 0 /\ steps[n] = "quit" THEN SubSeq(steps, 1, n - 1) ELSE steps
        order == <<"connect", "starttls", "login", "send_message">>
    IN  /\ Len(ops) <= 4
        /\ \A i \in 1..Len(ops) : ops[i] = order[i]
        /\ (\E i \in 1..n : steps[i] = "login") => smtp.tls
        /\ (\E i \in 1..n : steps[i] = "send_message") => smtp.auth
        /\ ret # None => smtp.sock # "open"

\* C7 witness: login was refused on an upgraded session; send_alert has
\* returned False and the session is closed.
C7_Witness ==
    /\ steps = <<"connect", "starttls", "login", "quit">>
    /\ ret = Some(FALSE)
    /\ smtp.tls /\ smtp.sock = "closed"

\* C8: a target entry that misses a key is not probed, gets no alert and
\* does not end the run; a finished run has checked every target.
C8_MalformedSkipped ==
    /\ (checked # <<>> /\ ~HasKeys(Target)) =>
          (pc # "crashed" /\ probedNow = 0 /\ alertsNow = 0)
    /\ pc = "done" => checked = [i \in 1..Len(urls) |-> i]

\* C9: in the alert body each of status_code, response_time_ms and
\* content_verified reads "N/A" when the field is absent in the check result
\* and the field's value otherwise.
C9_NotAvailable ==
    body # None =>
        \A f \in {"status_code", "response_time_ms", "content_verified"} :
            body[1][f] = (IF Res[f] = None THEN Fmt(Some("N/A")) ELSE Fmt(Res[f]))

\* C10 as stated: when status and content pass, the check fails exactly when
\* the recorded (rounded) response_time_ms exceeds max_response_time_ms, and
\* the error carries the recorded value.
C10_AsStated ==
    (Answered /\ HasKeys(Target) /\ StatusPassed /\ ContentPassed) =>
        /\ IsSlowError(Res.error) <=> Res.response_time_ms[1] > MaxResponseTime
        /\ IsSlowError(Res.error) =>
             Res.error = Some(<<"Slow response: ", Res.response_time_ms[1]>>)

\* C10, amended: when status and content pass, the check fails exactly when
\* the elapsed time before rounding exceeds max_response_time_ms (equality
\* passes) and the error carries that unrounded time; the recorded
\* response_time_ms is its rounding to 2 decimals, which is never below
\* max_response_time_ms in a "Slow response" result but may equal it.
C10_LatencyOnElapsed ==
    (Answered /\ HasKeys(Target) /\ StatusPassed /\ ContentPassed) =>
        /\ IsSlowError(Res.error) <=> Resp.elapsed > MaxResponseTime
        /\ ~IsSlowError(Res.error) => Res.success
        /\ IsSlowError(Res.error) =>
             /\ Res.error = Some(<<"Slow response: ", Resp.elapsed>>)
             /\ Res.response_time_ms[1] >= MaxResponseTime
        /\ Res.response_time_ms = Some(Round2(Resp.elapsed))
        /\ 2 * (Res.response_time_ms[1] - Resp.elapsed) <= Resolution
        /\ 2 * (Resp.elapsed - Res.response_time_ms[1]) <= Resolution
        /\ Res.response_time_ms[1] % Resolution = 0

\* C10 witness: a "Slow response" result whose recorded response_time_ms
\* equals max_response_time_ms.
C10_Witness ==
    /\ Answered /\ HasKeys(Target)
    /\ IsSlowError(Res.error)
    /\ Res.response_time_ms = Some(MaxResponseTime)

====
